---- MODULE Spec2Model ----
(***************************************************************************)
(* A model of bhopengraph.OpenGraph: the node table (a dict in insertion   *)
(* order), the edge list and source_kind, with one action per public       *)
(* operation of the store, and the breadth-first path search findPaths.    *)
(***************************************************************************)
EXTENDS Integers, Sequences, FiniteSets, TLC

VARIABLES nodes, edges, source_kind, last

vars == <<nodes, edges, source_kind, last>>

(***************************************************************************)
(* Bounds of the model.                                                    *)
(***************************************************************************)
MaxEdges == 2
MaxBulk == 2
MaxPathEdges == 3
MaxDepth == 3
MaxOrderEdges == 4
MaxDocItems == 2

Ids == {"A", "B"}
EdgeKinds == {"k1", "k2"}
None == "None"
SourceKinds == {None, "Src"}
KindLists == {<<"User">>, <<"Src">>}

PathIds == {"A", "B", "C"}
PathKinds == {"k1"}

(***************************************************************************)
(* Values                                                                  *)
(***************************************************************************)
Node(id, kinds) == [id |-> id, kinds |-> kinds]

Edge(start_node_id, end_node_id, kind) ==
    [start_node_id |-> start_node_id, end_node_id |-> end_node_id, kind |-> kind]

NodeArgs == {Node(i, k) : i \in Ids, k \in KindLists}

EdgeArgs == {Edge(s, e, k) : s \in Ids, e \in Ids, k \in EdgeKinds}

\* the sequences over S of length at most n
RECURSIVE SeqsUpTo(_, _)
SeqsUpTo(S, n) ==
    IF n = 0
    THEN {<<>>}
    ELSE LET shorter == SeqsUpTo(S, n - 1)
         IN  shorter \cup {Append(l, x) : l \in {t \in shorter : Len(t) = n - 1}, x \in S}

Range(s) == {s[i] : i \in DOMAIN s}

Truthy(s) == s # None /\ s # ""

(***************************************************************************)
(* The node table is a Python dict: a sequence of nodes with distinct ids, *)
(* in insertion order.                                                     *)
(***************************************************************************)
Keys(ns) == {ns[i].id : i \in DOMAIN ns}

DictGet(ns, id) == ns[CHOOSE i \in DOMAIN ns : ns[i].id = id]

DictSet(ns, node) ==
    IF node.id \in Keys(ns)
    THEN [i \in DOMAIN ns |-> IF ns[i].id = node.id THEN node ELSE ns[i]]
    ELSE Append(ns, node)

DictDel(ns, id) == SelectSeq(ns, LAMBDA n : n.id # id)

add_kind(node, kind) ==
    IF kind \in Range(node.kinds)
    THEN node
    ELSE [node EXCEPT !.kinds = Append(node.kinds, kind)]

SameTriple(e1, e2) ==
    /\ e1.start_node_id = e2.start_node_id
    /\ e1.end_node_id = e2.end_node_id
    /\ e1.kind = e2.kind

(***************************************************************************)
(* The argument of an unchecked insertion is a value of any class: obj is  *)
(* the Node or the Edge when class names one, and is never read otherwise. *)
(***************************************************************************)
Instance(class, obj) == [class |-> class, obj |-> obj]

isinstance(x, class) == x.class = class

(***************************************************************************)
(* Single-item operations, as functions of the store.  Each returns the    *)
(* return value, the new node table and edge list and, for the operations  *)
(* that may change their argument, the argument after the call.            *)
(***************************************************************************)
\* the unchecked insertion refusing an edge with an endpoint that is not a
\* node
addEdgeWithoutValidation_endpoints(ns, es, edge) ==
    IF ~isinstance(edge, "Edge")
    THEN [ret |-> FALSE, nodes |-> ns, edges |-> es]
    ELSE IF edge.obj.start_node_id \notin Keys(ns) \/ edge.obj.end_node_id \notin Keys(ns)
    THEN [ret |-> FALSE, nodes |-> ns, edges |-> es]
    ELSE [ret |-> TRUE, nodes |-> ns, edges |-> Append(es, edge.obj)]

addEdgeWithoutValidation(ns, es, edge) ==
    IF ~isinstance(edge, "Edge")
    THEN [ret |-> FALSE, nodes |-> ns, edges |-> es]
    ELSE [ret |-> TRUE, nodes |-> ns, edges |-> Append(es, edge.obj)]

\* addEdge comparing only the endpoints of the existing edges
addEdge_ignoreKind(ns, es, edge) ==
    IF edge.start_node_id \notin Keys(ns) \/ edge.end_node_id \notin Keys(ns)
    THEN [ret |-> FALSE, nodes |-> ns, edges |-> es]
    ELSE IF \E i \in DOMAIN es : /\ es[i].start_node_id = edge.start_node_id
                                 /\ es[i].end_node_id = edge.end_node_id
    THEN [ret |-> FALSE, nodes |-> ns, edges |-> es]
    ELSE [ret |-> TRUE, nodes |-> ns, edges |-> Append(es, edge)]

\* addEdge without the scan of the existing edges
addEdge_noScan(ns, es, edge) ==
    IF edge.start_node_id \notin Keys(ns) \/ edge.end_node_id \notin Keys(ns)
    THEN [ret |-> FALSE, nodes |-> ns, edges |-> es]
    ELSE [ret |-> TRUE, nodes |-> ns, edges |-> Append(es, edge)]

addEdge(ns, es, edge) ==
    IF edge.start_node_id \notin Keys(ns)
    THEN [ret |-> FALSE, nodes |-> ns, edges |-> es]
    ELSE IF edge.end_node_id \notin Keys(ns)
    THEN [ret |-> FALSE, nodes |-> ns, edges |-> es]
    ELSE IF \E i \in DOMAIN es : SameTriple(es[i], edge)
    THEN [ret |-> FALSE, nodes |-> ns, edges |-> es]
    ELSE [ret |-> TRUE, nodes |-> ns, edges |-> Append(es, edge)]

\* the unchecked insertion leaving the node already stored under the id
addNodeWithoutValidation_keepsExisting(ns, es, node) ==
    IF ~isinstance(node, "Node")
    THEN [ret |-> FALSE, nodes |-> ns, edges |-> es, node |-> node.obj]
    ELSE [ret |-> TRUE,
          nodes |-> IF node.obj.id \in Keys(ns) THEN ns ELSE DictSet(ns, node.obj),
          edges |-> es, node |-> node.obj]

addNodeWithoutValidation(ns, es, node) ==
    IF ~isinstance(node, "Node")
    THEN [ret |-> FALSE, nodes |-> ns, edges |-> es, node |-> node.obj]
    ELSE [ret |-> TRUE, nodes |-> DictSet(ns, node.obj), edges |-> es,
          node |-> node.obj]

\* addNode adding the source kind before it looks the id up
addNode_kindFirst(ns, es, sk, node) ==
    LET n2 == IF Truthy(sk) /\ sk \notin Range(node.kinds)
              THEN add_kind(node, sk)
              ELSE node
    IN  IF node.id \in Keys(ns)
        THEN [ret |-> FALSE, nodes |-> ns, edges |-> es, node |-> n2]
        ELSE [ret |-> TRUE, nodes |-> DictSet(ns, n2), edges |-> es, node |-> n2]

\* addNode adding the source kind without looking for it in the kinds
addNode_alwaysAppends(ns, es, sk, node) ==
    IF node.id \in Keys(ns)
    THEN [ret |-> FALSE, nodes |-> ns, edges |-> es, node |-> node]
    ELSE LET n2 == IF Truthy(sk)
                   THEN [node EXCEPT !.kinds = Append(node.kinds, sk)]
                   ELSE node
         IN  [ret |-> TRUE, nodes |-> DictSet(ns, n2), edges |-> es, node |-> n2]

addNode(ns, es, sk, node) ==
    IF node.id \in Keys(ns)
    THEN [ret |-> FALSE, nodes |-> ns, edges |-> es, node |-> node]
    ELSE LET n2 == IF Truthy(sk) /\ sk \notin Range(node.kinds)
                   THEN add_kind(node, sk)
                   ELSE node
         IN  [ret |-> TRUE, nodes |-> DictSet(ns, n2), edges |-> es, node |-> n2]

\* removeNodeById dropping only the edges that start at id
removeNodeById_startOnly(ns, es, id) ==
    IF id \notin Keys(ns)
    THEN [ret |-> FALSE, nodes |-> ns, edges |-> es]
    ELSE [ret |-> TRUE,
          nodes |-> DictDel(ns, id),
          edges |-> SelectSeq(es, LAMBDA e : e.start_node_id # id)]

\* removeNodeById dropping only the edges that start and end at id
removeNodeById_bothEnds(ns, es, id) ==
    IF id \notin Keys(ns)
    THEN [ret |-> FALSE, nodes |-> ns, edges |-> es]
    ELSE [ret |-> TRUE,
          nodes |-> DictDel(ns, id),
          edges |-> SelectSeq(es, LAMBDA e : e.start_node_id # id \/ e.end_node_id # id)]

removeNodeById(ns, es, id) ==
    IF id \notin Keys(ns)
    THEN [ret |-> FALSE, nodes |-> ns, edges |-> es]
    ELSE [ret |-> TRUE,
          nodes |-> DictDel(ns, id),
          edges |-> SelectSeq(es, LAMBDA e : e.start_node_id # id /\ e.end_node_id # id)]

removeNode(ns, es, node) == removeNodeById(ns, es, node.id)

\* clear emptying the node table only
clear_nodesOnly(ns, es) == [nodes |-> <<>>, edges |-> es]

clear(ns, es) == [nodes |-> <<>>, edges |-> <<>>]

__len__(ns, es) == Len(ns) + Len(es)

(***************************************************************************)
(* Bulk operations: the for loops of addEdges, addNodes and removeNodes,   *)
(* i is the position of the loop in the list.                              *)
(***************************************************************************)
\* the loop of addEdges leaving at the first edge that is not added
RECURSIVE addEdgesLoop_stopAtFailure(_, _, _, _, _)
addEdgesLoop_stopAtFailure(ns, es, list, i, success) ==
    IF i > Len(list)
    THEN [ret |-> success, nodes |-> ns, edges |-> es]
    ELSE LET r == addEdge(ns, es, list[i])
         IN  IF ~r.ret
             THEN [ret |-> FALSE, nodes |-> r.nodes, edges |-> r.edges]
             ELSE addEdgesLoop_stopAtFailure(r.nodes, r.edges, list, i + 1, success)

RECURSIVE addEdgesLoop(_, _, _, _, _)
addEdgesLoop(ns, es, list, i, success) ==
    IF i > Len(list)
    THEN [ret |-> success, nodes |-> ns, edges |-> es]
    ELSE LET r == addEdge(ns, es, list[i])
         IN  addEdgesLoop(r.nodes, r.edges, list, i + 1,
                          IF ~r.ret THEN FALSE ELSE success)

addEdges(ns, es, list) == addEdgesLoop(ns, es, list, 1, TRUE)

RECURSIVE addNodesLoop(_, _, _, _, _)
addNodesLoop(ns, es, sk, list, i) ==
    IF i > Len(list)
    THEN [ret |-> TRUE, nodes |-> ns, edges |-> es]
    ELSE LET r == addNode(ns, es, sk, list[i])
         IN  addNodesLoop(r.nodes, r.edges, sk, list, i + 1)

addNodes(ns, es, sk, list) == addNodesLoop(ns, es, sk, list, 1)

RECURSIVE removeNodesLoop(_, _, _, _, _)
removeNodesLoop(ns, es, list, i, success) ==
    IF i > Len(list)
    THEN [ret |-> success, nodes |-> ns, edges |-> es]
    ELSE LET r == removeNode(ns, es, list[i])
         IN  removeNodesLoop(r.nodes, r.edges, list, i + 1,
                             IF ~r.ret THEN FALSE ELSE success)

removeNodes(ns, es, list) == removeNodesLoop(ns, es, list, 1, TRUE)

\* the unchecked bulk insertions: the argument is a value of any class, a
\* list of values of any class when its class is list
RECURSIVE addNodesWithoutValidationLoop(_, _, _, _)
addNodesWithoutValidationLoop(ns, es, list, i) ==
    IF i > Len(list)
    THEN [ret |-> TRUE, nodes |-> ns, edges |-> es]
    ELSE LET r == addNodeWithoutValidation(ns, es, list[i])
         IN  addNodesWithoutValidationLoop(r.nodes, r.edges, list, i + 1)

addNodesWithoutValidation(ns, es, list) ==
    IF ~isinstance(list, "list")
    THEN [ret |-> FALSE, nodes |-> ns, edges |-> es]
    ELSE addNodesWithoutValidationLoop(ns, es, list.obj, 1)

RECURSIVE addEdgesWithoutValidationLoop(_, _, _, _)
addEdgesWithoutValidationLoop(ns, es, list, i) ==
    IF i > Len(list)
    THEN [ret |-> TRUE, nodes |-> ns, edges |-> es]
    ELSE LET r == addEdgeWithoutValidation(ns, es, list[i])
         IN  addEdgesWithoutValidationLoop(r.nodes, r.edges, list, i + 1)

addEdgesWithoutValidation(ns, es, list) ==
    IF ~isinstance(list, "list")
    THEN [ret |-> FALSE, nodes |-> ns, edges |-> es]
    ELSE addEdgesWithoutValidationLoop(ns, es, list.obj, 1)

(***************************************************************************)
(* Queries                                                                 *)
(***************************************************************************)
getEdgesFromNode(es, id) == SelectSeq(es, LAMBDA e : e.start_node_id = id)

getEdgesToNode(es, id) == SelectSeq(es, LAMBDA e : e.end_node_id = id)

\* getIsolatedEdges looking at the start of an edge only
getIsolatedEdges_startOnly(ns, es) ==
    SelectSeq(es, LAMBDA e : e.start_node_id \notin Keys(ns))

getIsolatedEdges(ns, es) ==
    SelectSeq(es, LAMBDA e : e.start_node_id \notin Keys(ns)
                             \/ e.end_node_id \notin Keys(ns))

getIsolatedEdgesCount(ns, es) == Len(getIsolatedEdges(ns, es))

\* the Optional[Node] returned is a sequence of at most one node
getNodeById(ns, id) == IF id \in Keys(ns) THEN <<DictGet(ns, id)>> ELSE <<>>

has_kind(node, kind) == kind \in Range(node.kinds)

getNodesByKind(ns, kind) == SelectSeq(ns, LAMBDA n : has_kind(n, kind))

getEdgesByKind(es, kind) == SelectSeq(es, LAMBDA e : e.kind = kind)

getIsolatedNodes(ns, es) ==
    SelectSeq(ns, LAMBDA n : /\ getEdgesFromNode(es, n.id) = <<>>
                             /\ getEdgesToNode(es, n.id) = <<>>)

getIsolatedNodesCount(ns, es) == Len(getIsolatedNodes(ns, es))

getNodeCount(ns) == Len(ns)

getEdgeCount(es) == Len(es)

(***************************************************************************)
(* findPaths: the queue holds (current_id, path) items; FindPathsFor is    *)
(* the for loop over the edges leaving current_id, FindPathsWhile the      *)
(* while loop over the queue.                                              *)
(***************************************************************************)
\* the for loop of findPaths without the test that next_id is not in path
RECURSIVE FindPathsFor_noCycleTest(_, _, _, _, _)
FindPathsFor_noCycleTest(out, path, end_id, queue, paths) ==
    IF out = <<>>
    THEN [queue |-> queue, paths |-> paths]
    ELSE LET next_id == Head(out).end_node_id
             new_path == Append(path, next_id)
         IN  IF next_id = end_id
             THEN FindPathsFor_noCycleTest(Tail(out), path, end_id, queue,
                                           Append(paths, new_path))
             ELSE FindPathsFor_noCycleTest(Tail(out), path, end_id,
                                           Append(queue, [id |-> next_id, path |-> new_path]),
                                           paths)

\* the for loop of findPaths putting the new item at the head of the queue
RECURSIVE FindPathsFor_pushFront(_, _, _, _, _)
FindPathsFor_pushFront(out, path, end_id, queue, paths) ==
    IF out = <<>>
    THEN [queue |-> queue, paths |-> paths]
    ELSE LET next_id == Head(out).end_node_id
             new_path == Append(path, next_id)
         IN  IF next_id \notin Range(path)
             THEN IF next_id = end_id
                  THEN FindPathsFor_pushFront(Tail(out), path, end_id, queue,
                                              Append(paths, new_path))
                  ELSE FindPathsFor_pushFront(Tail(out), path, end_id,
                                              <<[id |-> next_id, path |-> new_path]>> \o queue,
                                              paths)
             ELSE FindPathsFor_pushFront(Tail(out), path, end_id, queue, paths)

\* the for loop of findPaths refusing a next_id that any path built so far
\* has visited
RECURSIVE FindPathsFor_globalVisited(_, _, _, _, _)
FindPathsFor_globalVisited(out, path, end_id, queue, paths) ==
    IF out = <<>>
    THEN [queue |-> queue, paths |-> paths]
    ELSE LET next_id == Head(out).end_node_id
             new_path == Append(path, next_id)
             visited == Range(path)
                        \cup UNION {Range(queue[i].path) : i \in DOMAIN queue}
                        \cup (UNION {Range(paths[i]) : i \in DOMAIN paths} \ {end_id})
         IN  IF next_id \notin visited
             THEN IF next_id = end_id
                  THEN FindPathsFor_globalVisited(Tail(out), path, end_id, queue,
                                                  Append(paths, new_path))
                  ELSE FindPathsFor_globalVisited(Tail(out), path, end_id,
                                                  Append(queue, [id |-> next_id, path |-> new_path]),
                                                  paths)
             ELSE FindPathsFor_globalVisited(Tail(out), path, end_id, queue, paths)

RECURSIVE FindPathsFor(_, _, _, _, _)
FindPathsFor(out, path, end_id, queue, paths) ==
    IF out = <<>>
    THEN [queue |-> queue, paths |-> paths]
    ELSE LET next_id == Head(out).end_node_id
             new_path == Append(path, next_id)
         IN  IF next_id \notin Range(path)
             THEN IF next_id = end_id
                  THEN FindPathsFor(Tail(out), path, end_id, queue,
                                    Append(paths, new_path))
                  ELSE FindPathsFor(Tail(out), path, end_id,
                                    Append(queue, [id |-> next_id, path |-> new_path]),
                                    paths)
             ELSE FindPathsFor(Tail(out), path, end_id, queue, paths)

RECURSIVE FindPathsWhile(_, _, _, _, _)
FindPathsWhile(es, end_id, max_depth, queue, paths) ==
    IF queue = <<>> \/ ~(Len(queue[1].path) <= max_depth)
    THEN paths
    ELSE LET current_id == queue[1].id
             path == queue[1].path
             current_depth == Len(path)
         IN  IF current_depth >= max_depth
             THEN FindPathsWhile(es, end_id, max_depth, Tail(queue), paths)
             ELSE LET r == FindPathsFor(getEdgesFromNode(es, current_id), path,
                                        end_id, Tail(queue), paths)
                  IN  FindPathsWhile(es, end_id, max_depth, r.queue, r.paths)

\* findPaths without the start_id == end_id case
findPaths_noSameNodeCase(ns, es, start_id, end_id, max_depth) ==
    IF start_id \notin Keys(ns) \/ end_id \notin Keys(ns)
    THEN <<>>
    ELSE FindPathsWhile(es, end_id, max_depth,
                        <<[id |-> start_id, path |-> <<start_id>>]>>, <<>>)

findPaths(ns, es, start_id, end_id, max_depth) ==
    IF start_id \notin Keys(ns) \/ end_id \notin Keys(ns)
    THEN <<>>
    ELSE IF start_id = end_id
    THEN <<(<<start_id>>)>>
    ELSE FindPathsWhile(es, end_id, max_depth,
                        <<[id |-> start_id, path |-> <<start_id>>]>>, <<>>)

(***************************************************************************)
(* getConnectedComponents: ComponentsFor is the for loop over the node     *)
(* table, ComponentWhile the while loop over the stack (its last element   *)
(* is popped), Pushed the ids the two inner for loops append to the stack. *)
(***************************************************************************)
\* the inner loops of getConnectedComponents following outgoing edges only
Pushed_fromOnly(es, current, visited) ==
    LET from == getEdgesFromNode(es, current)
        ends == [i \in DOMAIN from |-> from[i].end_node_id]
    IN  SelectSeq(ends, LAMBDA x : x \notin visited)

Pushed(es, current, visited) ==
    LET from == getEdgesFromNode(es, current)
        to == getEdgesToNode(es, current)
        ends == [i \in DOMAIN from |-> from[i].end_node_id]
        starts == [i \in DOMAIN to |-> to[i].start_node_id]
    IN  SelectSeq(ends, LAMBDA x : x \notin visited)
        \o SelectSeq(starts, LAMBDA x : x \notin visited)

RECURSIVE ComponentWhile(_, _, _, _)
ComponentWhile(es, stack, visited, component) ==
    IF stack = <<>>
    THEN [visited |-> visited, component |-> component]
    ELSE LET current == stack[Len(stack)]
             rest == SubSeq(stack, 1, Len(stack) - 1)
         IN  IF current \notin visited
             THEN LET visited2 == visited \cup {current}
                  IN  ComponentWhile(es, rest \o Pushed(es, current, visited2),
                                     visited2, component \cup {current})
             ELSE ComponentWhile(es, rest, visited, component)

RECURSIVE ComponentsFor(_, _, _, _, _)
ComponentsFor(ns, es, i, visited, components) ==
    IF i > Len(ns)
    THEN components
    ELSE LET node_id == ns[i].id
         IN  IF node_id \notin visited
             THEN LET r == ComponentWhile(es, <<node_id>>, visited, {})
                  IN  ComponentsFor(ns, es, i + 1, r.visited,
                                    Append(components, r.component))
             ELSE ComponentsFor(ns, es, i + 1, visited, components)

getConnectedComponents(ns, es) == ComponentsFor(ns, es, 1, {}, <<>>)

(***************************************************************************)
(* validateGraph: an error message is modelled by the values formatted     *)
(* into it: the kind and the missing id of an edge, or the number and the  *)
(* list of the isolated nodes.                                             *)
(***************************************************************************)
StartError(edge) ==
    [type |-> "non-existent start node", kind |-> edge.kind,
     id |-> edge.start_node_id, count |-> 0, ids |-> <<>>]

EndError(edge) ==
    [type |-> "non-existent end node", kind |-> edge.kind,
     id |-> edge.end_node_id, count |-> 0, ids |-> <<>>]

IsolatedNodesError(isolated_nodes) ==
    [type |-> "isolated nodes", kind |-> "", id |-> "",
     count |-> Len(isolated_nodes), ids |-> isolated_nodes]

\* the loop over the edges reporting the end of an edge only when its start
\* is a node
RECURSIVE ValidateEdgesFor_elif(_, _, _, _)
ValidateEdgesFor_elif(ns, es, i, errors) ==
    IF i > Len(es)
    THEN errors
    ELSE ValidateEdgesFor_elif(ns, es, i + 1,
             IF es[i].start_node_id \notin Keys(ns)
             THEN Append(errors, StartError(es[i]))
             ELSE IF es[i].end_node_id \notin Keys(ns)
             THEN Append(errors, EndError(es[i]))
             ELSE errors)

RECURSIVE ValidateEdgesFor(_, _, _, _)
ValidateEdgesFor(ns, es, i, errors) ==
    IF i > Len(es)
    THEN errors
    ELSE LET e1 == IF es[i].start_node_id \notin Keys(ns)
                   THEN Append(errors, StartError(es[i]))
                   ELSE errors
             e2 == IF es[i].end_node_id \notin Keys(ns)
                   THEN Append(e1, EndError(es[i]))
                   ELSE e1
         IN  ValidateEdgesFor(ns, es, i + 1, e2)

RECURSIVE ValidateNodesFor(_, _, _, _)
ValidateNodesFor(ns, es, i, isolated_nodes) ==
    IF i > Len(ns)
    THEN isolated_nodes
    ELSE ValidateNodesFor(ns, es, i + 1,
             IF getEdgesFromNode(es, ns[i].id) = <<>> /\ getEdgesToNode(es, ns[i].id) = <<>>
             THEN Append(isolated_nodes, ns[i].id)
             ELSE isolated_nodes)

validateGraph(ns, es) ==
    LET errors == ValidateEdgesFor(ns, es, 1, <<>>)
        isolated_nodes == ValidateNodesFor(ns, es, 1, <<>>)
    IN  IF isolated_nodes # <<>>
        THEN Append(errors, IsolatedNodesError(isolated_nodes))
        ELSE errors

(***************************************************************************)
(* The JSON document.  A value found under a key of a record is absent,    *)
(* null, a string, or an object of which only the "value" entry matters    *)
(* (None when the object has none).  The document is the record of the     *)
(* presence of the "graph" key, the lists under graph.nodes and            *)
(* graph.edges (empty when the key is missing) and the value under         *)
(* metadata.source_kind.                                                   *)
(***************************************************************************)
Absent == [t |-> "absent", v |-> None]

Null == [t |-> "null", v |-> None]

Str(x) == [t |-> "str", v |-> x]

Obj(x) == [t |-> "obj", v |-> x]

to_dict(edge) ==
    [kind |-> Str(edge.kind),
     start |-> Obj(edge.start_node_id),
     end |-> Obj(edge.end_node_id),
     source |-> Absent, target |-> Absent,
     start_node_id |-> Absent, end_node_id |-> Absent]

NodeToDict(node) == [id |-> Str(node.id), kinds |-> node.kinds]

NoDoc == [has_graph |-> FALSE, nodes |-> <<>>, edges |-> <<>>, source_kind |-> Absent]

exportJSON(ns, es, sk, include_metadata) ==
    [has_graph |-> TRUE,
     nodes |-> [i \in DOMAIN ns |-> NodeToDict(ns[i])],
     edges |-> [i \in DOMAIN es |-> to_dict(es[i])],
     source_kind |-> IF include_metadata /\ Truthy(sk) THEN Str(sk) ELSE Absent]

(***************************************************************************)
(* Edge.from_dict.  The result is an Edge, None, or the AttributeError     *)
(* that .get raises on a "start" or "end" that is not an object and that   *)
(* the except clause does not list.                                        *)
(***************************************************************************)
Has(x) == x.t # "absent"

\* the Python value under a key that holds a string or null
Val(x) == IF x.t = "str" THEN x.v ELSE None

NoEdge == Edge("", "", "")

ReturnNone == [t |-> "none", edge |-> NoEdge]

RaiseAttributeError == [t |-> "raise", edge |-> NoEdge]

RaiseValueError == [t |-> "ValueError", edge |-> NoEdge]

\* Edge.__init__ without the test of kind
Edge__init___noKindTest(start_node_id, end_node_id, kind) ==
    IF ~Truthy(start_node_id)
    THEN RaiseValueError
    ELSE IF ~Truthy(end_node_id)
    THEN RaiseValueError
    ELSE [t |-> "edge", edge |-> Edge(start_node_id, end_node_id, kind)]

\* Edge.__init__: the Edge, or the ValueError raised on an empty argument
Edge__init__(start_node_id, end_node_id, kind) ==
    IF ~Truthy(start_node_id)
    THEN RaiseValueError
    ELSE IF ~Truthy(end_node_id)
    THEN RaiseValueError
    ELSE IF ~Truthy(kind)
    THEN RaiseValueError
    ELSE [t |-> "edge", edge |-> Edge(start_node_id, end_node_id, kind)]

\* Node.__init__: the Node, or the ValueError raised on an empty id
Node__init__(id, kinds) ==
    IF ~Truthy(id)
    THEN [t |-> "ValueError", node |-> Node("", <<>>)]
    ELSE [t |-> "node", node |-> Node(id, kinds)]

\* the end of from_dict: the test of the two ids, then the constructor,
\* whose ValueError is caught
Construct(start_node_id, end_node_id, kind) ==
    IF ~Truthy(start_node_id) \/ ~Truthy(end_node_id)
    THEN ReturnNone
    ELSE LET r == Edge__init__(start_node_id, end_node_id, kind)
         IN  IF r.t = "ValueError" THEN ReturnNone ELSE r

from_dict(edge_data) ==
    IF ~Has(edge_data.kind)
    THEN ReturnNone
    ELSE LET kind == Val(edge_data.kind)
         IN  IF Has(edge_data.start) /\ Has(edge_data.end)
             THEN IF edge_data.start.t # "obj" \/ edge_data.end.t # "obj"
                  THEN RaiseAttributeError
                  ELSE Construct(edge_data.start.v, edge_data.end.v, kind)
             ELSE IF Has(edge_data.source) /\ Has(edge_data.target)
             THEN Construct(Val(edge_data.source), Val(edge_data.target), kind)
             ELSE IF Has(edge_data.start_node_id) /\ Has(edge_data.end_node_id)
             THEN Construct(Val(edge_data.start_node_id),
                            Val(edge_data.end_node_id), kind)
             ELSE ReturnNone

(***************************************************************************)
(* importFromDict: a document without the "graph" key is refused; the node *)
(* records that carry an id and the edge records that from_dict parses are *)
(* inserted by the unchecked insertions, the others are skipped; then      *)
(* source_kind is set from metadata.source_kind when the document has it.  *)
(* An error raised by from_dict leaves the import at that record.          *)
(***************************************************************************)
\* Node.from_dict: a sequence of at most one node
NodeFromDict(node_data) ==
    IF node_data.id.t = "str" /\ Truthy(node_data.id.v)
    THEN <<Node(node_data.id.v, node_data.kinds)>>
    ELSE <<>>

RECURSIVE ImportNodesFor(_, _, _, _)
ImportNodesFor(ns, es, list, i) ==
    IF i > Len(list)
    THEN ns
    ELSE LET node == NodeFromDict(list[i])
         IN  ImportNodesFor(IF node # <<>>
                            THEN addNodeWithoutValidation(ns, es, Instance("Node", node[1])).nodes
                            ELSE ns,
                            es, list, i + 1)

RECURSIVE ImportEdgesFor(_, _, _, _)
ImportEdgesFor(ns, es, list, i) ==
    IF i > Len(list)
    THEN [raised |-> FALSE, edges |-> es]
    ELSE LET r == from_dict(list[i])
         IN  IF r.t = "raise"
             THEN [raised |-> TRUE, edges |-> es]
             ELSE ImportEdgesFor(ns,
                                 IF r.t = "edge"
                                 THEN addEdgeWithoutValidation(ns, es,
                                          Instance("Edge", r.edge)).edges
                                 ELSE es,
                                 list, i + 1)

\* importFromDict setting source_kind from the document even when the
\* document has no metadata.source_kind
importFromDict_alwaysSetsKind(ns, es, sk, data) ==
    IF ~data.has_graph
    THEN [ret |-> FALSE, raised |-> FALSE, nodes |-> ns, edges |-> es,
          source_kind |-> sk]
    ELSE LET ns2 == ImportNodesFor(ns, es, data.nodes, 1)
             r == ImportEdgesFor(ns2, es, data.edges, 1)
         IN  IF r.raised
             THEN [ret |-> FALSE, raised |-> TRUE, nodes |-> ns2,
                   edges |-> r.edges, source_kind |-> sk]
             ELSE [ret |-> TRUE, raised |-> FALSE, nodes |-> ns2,
                   edges |-> r.edges, source_kind |-> Val(data.source_kind)]

importFromDict(ns, es, sk, data) ==
    IF ~data.has_graph
    THEN [ret |-> FALSE, raised |-> FALSE, nodes |-> ns, edges |-> es,
          source_kind |-> sk]
    ELSE LET ns2 == ImportNodesFor(ns, es, data.nodes, 1)
             r == ImportEdgesFor(ns2, es, data.edges, 1)
         IN  IF r.raised
             THEN [ret |-> FALSE, raised |-> TRUE, nodes |-> ns2,
                   edges |-> r.edges, source_kind |-> sk]
             ELSE [ret |-> TRUE, raised |-> FALSE, nodes |-> ns2,
                   edges |-> r.edges,
                   source_kind |-> IF Has(data.source_kind)
                                   THEN Val(data.source_kind)
                                   ELSE sk]

(***************************************************************************)
(* The store as a state machine.  A caller calls one operation at a time   *)
(* and reads its result before the next call.  last records the call whose *)
(* result has not been read yet: its name, its arguments (the nodes, edges *)
(* and ids passed, and max_depth), the store before the call, the boolean  *)
(* returned (FALSE when the operation returns no boolean), the paths       *)
(* returned by findPaths, the argument nodes as they are after the call    *)
(* the components returned by getConnectedComponents, the errors returned  *)
(* by validateGraph, the nodes, the edges or the number returned by a      *)
(* query, the include_metadata and kind arguments, the document exported   *)
(* or imported, source_kind before the call, whether the call raised, the  *)
(* result of Edge.from_dict, the class of the argument of an unchecked     *)
(* insertion, and, while a search runs step by step, its local variables:  *)
(* the queue of findPaths, and the stack, the visited set, the component   *)
(* and the position i in the node table of getConnectedComponents.         *)
(***************************************************************************)
NoCall ==
    [op |-> "none", nodeArgs |-> <<>>, edgeArgs |-> <<>>, ids |-> <<>>,
     max_depth |-> 0, nodes0 |-> <<>>, edges0 |-> <<>>,
     ret |-> FALSE, paths |-> <<>>, nodesAfter |-> <<>>,
     components |-> <<>>, errors |-> <<>>,
     nodesOut |-> <<>>, edgesOut |-> <<>>, count |-> 0,
     include_metadata |-> FALSE, kind |-> "", doc |-> NoDoc,
     source_kind0 |-> None, raised |-> FALSE, result |-> ReturnNone,
     argClass |-> "",
     queue |-> <<>>, stack |-> <<>>, visited |-> {}, component |-> {}, i |-> 0]

Call(op, args, r) ==
    /\ nodes' = r.nodes
    /\ edges' = r.edges
    /\ last' = [args EXCEPT !.op = op, !.nodes0 = nodes, !.edges0 = edges,
                            !.ret = r.ret]
    /\ UNCHANGED source_kind

Return ==
    /\ last.op # "none"
    /\ last' = NoCall
    /\ UNCHANGED <<nodes, edges, source_kind>>

RemoveArgs == {Node(i, <<"User">>) : i \in Ids}

\* the arguments of the unchecked insertions: the nodes and the edges, and
\* a string
UncheckedNodeArgs ==
    {Instance("Node", n) : n \in NodeArgs} \cup {Instance("str", Node("", <<>>))}

UncheckedEdgeArgs ==
    {Instance("Edge", e) : e \in EdgeArgs} \cup {Instance("str", NoEdge)}

\* the lists passed to the bulk operations hold nodes of one kind and edges
\* of one kind
NodeLists == SeqsUpTo({n \in NodeArgs : n.kinds = <<"User">>}, MaxBulk)

EdgeLists == SeqsUpTo({e \in EdgeArgs : e.kind = "k1"}, MaxBulk)

RemoveLists == SeqsUpTo(RemoveArgs, MaxBulk)

Init ==
    /\ nodes = <<>>
    /\ edges = <<>>
    /\ source_kind \in SourceKinds
    /\ last = NoCall

AddNode ==
    /\ last.op = "none"
    /\ \E n \in NodeArgs :
           LET r == addNode(nodes, edges, source_kind, n)
           IN  Call("addNode",
                    [NoCall EXCEPT !.nodeArgs = <<n>>, !.nodesAfter = <<r.node>>], r)

AddNodeWithoutValidation ==
    /\ last.op = "none"
    /\ \E n \in UncheckedNodeArgs :
           LET r == addNodeWithoutValidation(nodes, edges, n)
           IN  Call("addNodeWithoutValidation",
                    [NoCall EXCEPT !.argClass = n.class,
                                   !.nodeArgs = <<n.obj>>,
                                   !.nodesAfter = <<r.node>>], r)

AddNodes ==
    /\ last.op = "none"
    /\ \E list \in NodeLists :
           Call("addNodes", [NoCall EXCEPT !.nodeArgs = list],
                addNodes(nodes, edges, source_kind, list))

AddEdge ==
    /\ last.op = "none"
    /\ \E e \in EdgeArgs :
           LET r == addEdge(nodes, edges, e)
           IN  /\ Len(r.edges) <= MaxEdges
               /\ Call("addEdge", [NoCall EXCEPT !.edgeArgs = <<e>>], r)

AddEdges ==
    /\ last.op = "none"
    /\ \E list \in EdgeLists :
           LET r == addEdges(nodes, edges, list)
           IN  /\ Len(r.edges) <= MaxEdges
               /\ Call("addEdges", [NoCall EXCEPT !.edgeArgs = list], r)

AddEdgeWithoutValidation ==
    /\ last.op = "none"
    /\ \E e \in UncheckedEdgeArgs :
           LET r == addEdgeWithoutValidation(nodes, edges, e)
           IN  /\ Len(r.edges) <= MaxEdges
               /\ Call("addEdgeWithoutValidation",
                       [NoCall EXCEPT !.argClass = e.class,
                                      !.edgeArgs = <<e.obj>>], r)

RemoveNode ==
    /\ last.op = "none"
    /\ \E n \in RemoveArgs :
           Call("removeNode", [NoCall EXCEPT !.nodeArgs = <<n>>],
                removeNode(nodes, edges, n))

RemoveNodeById ==
    /\ last.op = "none"
    /\ \E id \in Ids :
           Call("removeNodeById", [NoCall EXCEPT !.ids = <<id>>],
                removeNodeById(nodes, edges, id))

RemoveNodes ==
    /\ last.op = "none"
    /\ \E list \in RemoveLists :
           Call("removeNodes", [NoCall EXCEPT !.nodeArgs = list],
                removeNodes(nodes, edges, list))

Clear ==
    /\ last.op = "none"
    /\ LET r == clear(nodes, edges)
       IN  Call("clear", [NoCall EXCEPT !.source_kind0 = source_kind],
                [ret |-> FALSE, nodes |-> r.nodes, edges |-> r.edges])

NextChecked ==
    \/ AddNode
    \/ AddNodes
    \/ AddNodeWithoutValidation
    \/ AddEdge
    \/ AddEdges
    \/ RemoveNode
    \/ RemoveNodes
    \/ RemoveNodeById
    \/ Clear
    \/ Return

SpecChecked == Init /\ [][NextChecked]_vars

Next ==
    \/ NextChecked
    \/ AddEdgeWithoutValidation

Spec == Init /\ [][Next]_vars

(***************************************************************************)
(* Path search over the stores with node ids in PathIds.                   *)
(***************************************************************************)
PathEdgeArgs == {Edge(s, e, k) : s \in PathIds, e \in PathIds, k \in PathKinds}

PathEdgeLists == SeqsUpTo(PathEdgeArgs, MaxPathEdges)

PathIdOrder == <<"A", "B", "C">>

PathNodeTables ==
    {SelectSeq([i \in DOMAIN PathIdOrder |-> Node(PathIdOrder[i], <<"User">>)],
               LAMBDA n : n.id \in S) : S \in SUBSET PathIds}

InitPaths ==
    /\ nodes \in PathNodeTables
    /\ edges \in PathEdgeLists
    /\ source_kind = None
    /\ last = NoCall

FindPaths ==
    /\ last.op = "none"
    /\ \E s \in PathIds, e \in PathIds, d \in -1..MaxDepth :
          last' = [NoCall EXCEPT !.op = "findPaths", !.ids = <<s, e>>,
                                 !.max_depth = d,
                                 !.nodes0 = nodes, !.edges0 = edges,
                                 !.paths = findPaths(nodes, edges, s, e, d)]
    /\ UNCHANGED <<nodes, edges, source_kind>>

NextPaths ==
    \/ FindPaths
    \/ Return

SpecPaths == InitPaths /\ [][NextPaths]_vars

(***************************************************************************)
(* Path search from A over four node ids, on edge lists long enough for    *)
(* two paths of the same length to exist.  The lists hold no self-loop and *)
(* no edge into A: a search from A never follows either.                   *)
(***************************************************************************)
OrderIds == {"A", "B", "C", "D"}

OrderEdgeArgs ==
    {x \in {Edge(s, e, "k1") : s \in OrderIds, e \in OrderIds} :
        x.start_node_id # x.end_node_id /\ x.end_node_id # "A"}

OrderEdgeLists == SeqsUpTo(OrderEdgeArgs, MaxOrderEdges)

OrderNodeTables ==
    {<<Node("A", <<"User">>), Node("B", <<"User">>), Node("C", <<"User">>)>>,
     <<Node("A", <<"User">>), Node("B", <<"User">>), Node("C", <<"User">>),
       Node("D", <<"User">>)>>}

OrderDepths == {3, 5}

InitOrder ==
    /\ nodes \in OrderNodeTables
    /\ edges \in OrderEdgeLists
    /\ source_kind = None
    /\ last = NoCall

FindPathsFromA ==
    /\ last.op = "none"
    /\ \E e \in {"C", "D"}, d \in OrderDepths :
          last' = [NoCall EXCEPT !.op = "findPaths", !.ids = <<"A", e>>,
                                 !.max_depth = d,
                                 !.nodes0 = nodes, !.edges0 = edges,
                                 !.paths = findPaths(nodes, edges, "A", e, d)]
    /\ UNCHANGED <<nodes, edges, source_kind>>

NextOrder ==
    \/ FindPathsFromA
    \/ Return

SpecOrder == InitOrder /\ [][NextOrder]_vars

(***************************************************************************)
(* Properties of the single-item operations.                               *)
(***************************************************************************)
HasTriple(es, edge) == \E i \in DOMAIN es : SameTriple(es[i], edge)

Touches(edge, id) == edge.start_node_id = id \/ edge.end_node_id = id

\* the sequence s without the positions in K, the others in their order
WithoutPositions(s, K) ==
    LET keep == DOMAIN s \ K
        nth(j) == CHOOSE i \in keep : Cardinality({m \in keep : m < i}) = j - 1
    IN  [j \in 1..Cardinality(keep) |-> s[nth(j)]]

(* C1: addNode returns true and inserts the node when its id is not a key  *)
(* of the node table; when the id is already a key it returns false and    *)
(* leaves the node table, the edge list, the stored node and the kinds of  *)
(* the rejected node unchanged.                                            *)
C1_AddNodeContract ==
    last.op = "addNode" =>
        LET node == last.nodeArgs[1]
        IN  IF node.id \in Keys(last.nodes0)
            THEN /\ last.ret = FALSE
                 /\ nodes = last.nodes0
                 /\ edges = last.edges0
                 /\ DictGet(nodes, node.id) = DictGet(last.nodes0, node.id)
                 /\ last.nodesAfter[1].kinds = node.kinds
            ELSE /\ last.ret = TRUE
                 /\ Len(nodes) = Len(last.nodes0) + 1
                 /\ SubSeq(nodes, 1, Len(last.nodes0)) = last.nodes0
                 /\ nodes[Len(nodes)].id = node.id
                 /\ edges = last.edges0

C1_Witness ==
    /\ last.op = "addNode"
    /\ last.ret = FALSE
    /\ Truthy(source_kind)
    /\ source_kind \notin Range(last.nodeArgs[1].kinds)
    /\ DictGet(nodes, last.nodeArgs[1].id).kinds # last.nodeArgs[1].kinds
    /\ edges # <<>>

(* C2: addEdge returns true and appends the edge at the end of the edge    *)
(* list exactly when both endpoints are keys of the node table and no edge *)
(* of the list has the same (start, end, kind); otherwise it returns false *)
(* and leaves the node table and the edge list unchanged.                  *)
C2_AddEdgeContract ==
    last.op = "addEdge" =>
        LET e == last.edgeArgs[1]
            accepted == /\ e.start_node_id \in Keys(last.nodes0)
                        /\ e.end_node_id \in Keys(last.nodes0)
                        /\ ~HasTriple(last.edges0, e)
        IN  /\ last.ret = accepted
            /\ nodes = last.nodes0
            /\ edges = IF accepted THEN last.edges0 \o <<e>> ELSE last.edges0

C2_Witness ==
    /\ last.op = "addEdge"
    /\ last.ret = FALSE
    /\ last.edgeArgs[1].start_node_id \in Keys(nodes)
    /\ last.edgeArgs[1].end_node_id \in Keys(nodes)
    /\ \E i, j \in DOMAIN edges :
          /\ i < j
          /\ SameTriple(edges[i], edges[j])
          /\ SameTriple(edges[i], last.edgeArgs[1])

(* C3: in every store reached without unchecked edge insertion, no two     *)
(* edges of the edge list have the same (start, end, kind).                *)
C3_NoDuplicateTriples ==
    \A i, j \in DOMAIN edges : i # j => ~SameTriple(edges[i], edges[j])

C3_Witness ==
    /\ last.op = "addEdge"
    /\ last.ret = FALSE
    /\ HasTriple(edges, last.edgeArgs[1])
    /\ \E i \in DOMAIN edges :
          /\ edges[i].start_node_id = last.edgeArgs[1].start_node_id
          /\ edges[i].end_node_id = last.edgeArgs[1].end_node_id
          /\ edges[i].kind # last.edgeArgs[1].kind

(* C4: in every store reached without unchecked edge insertion, the start  *)
(* and the end of every edge are keys of the node table, so there are no   *)
(* isolated edges and their count is 0.                                    *)
C4_NoIsolatedEdges ==
    /\ \A i \in DOMAIN edges :
          /\ edges[i].start_node_id \in Keys(nodes)
          /\ edges[i].end_node_id \in Keys(nodes)
    /\ getIsolatedEdges(nodes, edges) = <<>>
    /\ getIsolatedEdgesCount(nodes, edges) = 0

C4_Witness ==
    /\ last.op \in {"removeNodeById", "removeNode", "removeNodes"}
    /\ Len(edges) < Len(last.edges0)
    /\ edges # <<>>

(* C5: removeNodeById(id) with id present and k edges touching id returns  *)
(* true, removes exactly that node and exactly those k edges and keeps the *)
(* other nodes and edges in their order; with id absent (as it is after a  *)
(* removal) it returns false and changes nothing.                          *)
C5_RemoveNodeByIdContract ==
    last.op = "removeNodeById" =>
        LET id == last.ids[1]
            touching == {i \in DOMAIN last.edges0 : Touches(last.edges0[i], id)}
            k == Cardinality(touching)
        IN  IF id \in Keys(last.nodes0)
            THEN /\ last.ret = TRUE
                 /\ getNodeCount(nodes) = getNodeCount(last.nodes0) - 1
                 /\ getEdgeCount(edges) = getEdgeCount(last.edges0) - k
                 /\ nodes = WithoutPositions(last.nodes0,
                               {i \in DOMAIN last.nodes0 : last.nodes0[i].id = id})
                 /\ edges = WithoutPositions(last.edges0, touching)
                 /\ removeNodeById(nodes, edges, id).ret = FALSE
            ELSE /\ last.ret = FALSE
                 /\ nodes = last.nodes0
                 /\ edges = last.edges0

C5_Witness ==
    /\ last.op = "removeNodeById"
    /\ last.ret = TRUE
    /\ \E i \in DOMAIN last.edges0 :
          /\ last.edges0[i].start_node_id = last.ids[1]
          /\ last.edges0[i].end_node_id = last.ids[1]
    /\ edges # <<>>
    /\ nodes # <<>>

(***************************************************************************)
(* Properties of the bulk operations.                                      *)
(***************************************************************************)
BulkOps == {"addNodes", "addEdges", "removeNodes"}

Single(op, ns, es, sk, x) ==
    CASE op = "addNodes" -> addNode(ns, es, sk, x)
      [] op = "addEdges" -> addEdge(ns, es, x)
      [] op = "removeNodes" -> removeNode(ns, es, x)

\* the single-item operation of a bulk operation called on each element of
\* the list in list order: the return values and the store at the end
RECURSIVE OneByOne(_, _, _, _, _)
OneByOne(op, ns, es, sk, list) ==
    IF list = <<>>
    THEN [rets |-> <<>>, nodes |-> ns, edges |-> es]
    ELSE LET r == Single(op, ns, es, sk, Head(list))
             rest == OneByOne(op, r.nodes, r.edges, sk, Tail(list))
         IN  [rets |-> <<r.ret>> \o rest.rets,
              nodes |-> rest.nodes, edges |-> rest.edges]

LastOneByOne ==
    OneByOne(last.op, last.nodes0, last.edges0, source_kind,
             IF last.op = "addEdges" THEN last.edgeArgs ELSE last.nodeArgs)

(* C6: addNodes, addEdges and removeNodes return true only if the          *)
(* single-item operation returned true for every element of the list; if   *)
(* it returned false for at least one element, the bulk call returns       *)
(* false.                                                                  *)
C6_BulkSuccessOnlyIfAllSucceed ==
    last.op \in BulkOps =>
        (last.ret = TRUE => \A i \in DOMAIN LastOneByOne.rets : LastOneByOne.rets[i])

(* C7: the store after addNodes, addEdges or removeNodes is the store      *)
(* obtained by calling the single-item operation on each element in list   *)
(* order: an element that fails does not stop the later elements.          *)
C7_BulkIsOneByOne ==
    last.op \in BulkOps =>
        /\ nodes = LastOneByOne.nodes
        /\ edges = LastOneByOne.edges

C7_Witness ==
    /\ last.op = "addEdges"
    /\ LastOneByOne.rets = <<FALSE, TRUE>>
    /\ edges = last.edges0 \o <<last.edgeArgs[2]>>
    /\ last.edges0 # <<>>

(***************************************************************************)
(* Properties of findPaths.                                                *)
(***************************************************************************)
PathCandidates ==
    {p \in SeqsUpTo(PathIds, Cardinality(PathIds)) :
        /\ Len(p) >= 1
        /\ \A i, j \in DOMAIN p : i # j => p[i] # p[j]}

Joined(es, u, v) ==
    \E k \in DOMAIN es : es[k].start_node_id = u /\ es[k].end_node_id = v

\* p is a directed path of es from s to e
IsPath(es, p, s, e) ==
    /\ p[1] = s
    /\ p[Len(p)] = e
    /\ \A i \in 1..(Len(p) - 1) : Joined(es, p[i], p[i + 1])

\* the simple directed paths of es from s to e with at most d edges
SimplePaths(es, s, e, d) ==
    {p \in PathCandidates : IsPath(es, p, s, e) /\ Len(p) - 1 <= d}

start_id == last.ids[1]

end_id == last.ids[2]

(* C8: for distinct start and end ids present in the store and every       *)
(* maxDepth >= 0, findPaths returns every simple directed path from start  *)
(* to end that uses at most maxDepth edges.                                *)
C8_AllSimplePathsUpToMaxDepthEdges ==
    (/\ last.op = "findPaths"
     /\ start_id # end_id
     /\ start_id \in Keys(nodes)
     /\ end_id \in Keys(nodes)
     /\ last.max_depth >= 0)
    => SimplePaths(edges, start_id, end_id, last.max_depth) \subseteq Range(last.paths)

(* C9: findPaths(x, x, d) returns exactly [[x]] for every d when x is a    *)
(* key of the node table, and findPaths(s, e, d) returns [] when s or e is *)
(* not a key of the node table.                                            *)
C9_SameNodeAndAbsentEndpoints ==
    last.op = "findPaths" =>
        /\ (start_id = end_id /\ start_id \in Keys(nodes))
           => last.paths = << <<start_id>> >>
        /\ (start_id \notin Keys(nodes) \/ end_id \notin Keys(nodes))
           => last.paths = <<>>

C9_Witness ==
    /\ last.op = "findPaths"
    /\ start_id = end_id
    /\ start_id \in Keys(nodes)
    /\ last.max_depth < 0
    /\ Joined(edges, start_id, start_id)
    /\ last.paths = << <<start_id>> >>

(* C10: every path returned by findPaths(start, end, maxDepth) with        *)
(* start # end begins with start, ends with end, holds no id twice, holds  *)
(* end only as its last element, follows an edge of the edge list at each  *)
(* step and uses at most maxDepth edges; so the result is [] when no       *)
(* simple path of at most maxDepth edges leads from start to end.          *)
C10_ReturnedPathsAreBoundedSimplePaths ==
    (last.op = "findPaths" /\ start_id # end_id) =>
        /\ \A n \in DOMAIN last.paths :
              LET p == last.paths[n]
              IN  /\ IsPath(edges, p, start_id, end_id)
                  /\ \A i, j \in DOMAIN p : i # j => p[i] # p[j]
                  /\ \A i \in DOMAIN p : p[i] = end_id => i = Len(p)
                  /\ Len(p) - 1 <= last.max_depth
        /\ SimplePaths(edges, start_id, end_id, last.max_depth) = {}
           => last.paths = <<>>

C10_Witness ==
    /\ last.op = "findPaths"
    /\ start_id # end_id
    /\ \E n \in DOMAIN last.paths :
          /\ Len(last.paths[n]) = 3
          /\ Joined(edges, last.paths[n][2], last.paths[n][1])

(***************************************************************************)
(* The read operations, called on the stores with node ids in PathIds: any *)
(* node table and any edge list can be built with the unchecked            *)
(* insertions, so the edges may have endpoints that are not nodes.         *)
(***************************************************************************)
InitQueries ==
    /\ nodes \in PathNodeTables
    /\ edges \in PathEdgeLists
    /\ source_kind \in SourceKinds
    /\ last = NoCall

Query(op, args) ==
    /\ last' = [args EXCEPT !.op = op, !.nodes0 = nodes, !.edges0 = edges]
    /\ UNCHANGED <<nodes, edges, source_kind>>

GetConnectedComponents ==
    /\ last.op = "none"
    /\ Query("getConnectedComponents",
             [NoCall EXCEPT !.components = getConnectedComponents(nodes, edges)])

\* validateGraph removing the edges it reports
ValidateGraph_removesReported ==
    /\ last.op = "none"
    /\ last' = [NoCall EXCEPT !.op = "validateGraph", !.nodes0 = nodes,
                              !.edges0 = edges,
                              !.errors = validateGraph(nodes, edges)]
    /\ edges' = SelectSeq(edges, LAMBDA e : /\ e.start_node_id \in Keys(nodes)
                                            /\ e.end_node_id \in Keys(nodes))
    /\ UNCHANGED <<nodes, source_kind>>

ValidateGraph ==
    /\ last.op = "none"
    /\ Query("validateGraph", [NoCall EXCEPT !.errors = validateGraph(nodes, edges)])

ExportJSON ==
    /\ last.op = "none"
    /\ \E include_metadata \in BOOLEAN :
          Query("exportJSON",
                [NoCall EXCEPT !.include_metadata = include_metadata,
                               !.doc = exportJSON(nodes, edges, source_kind,
                                                  include_metadata)])

GetNodeById ==
    /\ last.op = "none"
    /\ \E id \in PathIds :
          Query("getNodeById",
                [NoCall EXCEPT !.ids = <<id>>, !.nodesOut = getNodeById(nodes, id)])

GetNodesByKind ==
    /\ last.op = "none"
    /\ \E kind \in {"User", "Src"} :
          Query("getNodesByKind",
                [NoCall EXCEPT !.kind = kind, !.nodesOut = getNodesByKind(nodes, kind)])

GetEdgesByKind ==
    /\ last.op = "none"
    /\ \E kind \in EdgeKinds :
          Query("getEdgesByKind",
                [NoCall EXCEPT !.kind = kind, !.edgesOut = getEdgesByKind(edges, kind)])

GetEdgesFromNode ==
    /\ last.op = "none"
    /\ \E id \in PathIds :
          Query("getEdgesFromNode",
                [NoCall EXCEPT !.ids = <<id>>, !.edgesOut = getEdgesFromNode(edges, id)])

GetEdgesToNode ==
    /\ last.op = "none"
    /\ \E id \in PathIds :
          Query("getEdgesToNode",
                [NoCall EXCEPT !.ids = <<id>>, !.edgesOut = getEdgesToNode(edges, id)])

GetIsolatedNodes ==
    /\ last.op = "none"
    /\ Query("getIsolatedNodes",
             [NoCall EXCEPT !.nodesOut = getIsolatedNodes(nodes, edges)])

GetIsolatedEdges ==
    /\ last.op = "none"
    /\ Query("getIsolatedEdges",
             [NoCall EXCEPT !.edgesOut = getIsolatedEdges(nodes, edges)])

GetNodeCount ==
    /\ last.op = "none"
    /\ Query("getNodeCount", [NoCall EXCEPT !.count = getNodeCount(nodes)])

GetEdgeCount ==
    /\ last.op = "none"
    /\ Query("getEdgeCount", [NoCall EXCEPT !.count = getEdgeCount(edges)])

GetIsolatedNodesCount ==
    /\ last.op = "none"
    /\ Query("getIsolatedNodesCount",
             [NoCall EXCEPT !.count = getIsolatedNodesCount(nodes, edges)])

GetIsolatedEdgesCount ==
    /\ last.op = "none"
    /\ Query("getIsolatedEdgesCount",
             [NoCall EXCEPT !.count = getIsolatedEdgesCount(nodes, edges)])

NextQueries ==
    \/ FindPathsFromA
    \/ GetConnectedComponents
    \/ ValidateGraph
    \/ ExportJSON
    \/ GetNodeById
    \/ GetNodesByKind
    \/ GetEdgesByKind
    \/ GetEdgesFromNode
    \/ GetEdgesToNode
    \/ GetIsolatedNodes
    \/ GetIsolatedEdges
    \/ GetNodeCount
    \/ GetEdgeCount
    \/ GetIsolatedNodesCount
    \/ GetIsolatedEdgesCount
    \/ Return

SpecQueries == InitQueries /\ [][NextQueries]_vars

(***************************************************************************)
(* Edge.from_dict applied to the edge records.                             *)
(***************************************************************************)
EdgeRecords ==
    [kind : {Absent, Null, Str(""), Str("k1")},
     start : {Absent, Obj("A"), Obj(None), Str("A")},
     end : {Absent, Obj("B"), Obj(None), Str("B")},
     source : {Absent, Null, Str("C")},
     target : {Absent, Null, Str("D")},
     start_node_id : {Absent, Str("E")},
     end_node_id : {Absent, Str("F")}]

FromDict ==
    /\ last.op = "none"
    /\ \E edge_data \in EdgeRecords :
          Query("from_dict",
                [NoCall EXCEPT !.doc = [NoDoc EXCEPT !.edges = <<edge_data>>],
                               !.result = from_dict(edge_data)])

NextFromDict ==
    \/ FromDict
    \/ Return

SpecFromDict == Init /\ [][NextFromDict]_vars

(***************************************************************************)
(* One import into each store on the ids of Ids, and the round trip of a   *)
(* store: exportJSON on it, then clear() and importFromDict of the         *)
(* exported document on a store with source kind target_kind.              *)
(***************************************************************************)
NodeRecords ==
    {[id |-> Str(i), kinds |-> <<"Doc">>] : i \in Ids}
    \cup {[id |-> Absent, kinds |-> <<"Doc">>]}

NoKeys ==
    [kind |-> Absent, start |-> Absent, end |-> Absent, source |-> Absent,
     target |-> Absent, start_node_id |-> Absent, end_node_id |-> Absent]

DocEdgeRecords ==
    {[NoKeys EXCEPT !.kind = Str("k1"), !.source = Str("A"), !.target = Str("B")],
     NoKeys,
     [NoKeys EXCEPT !.kind = Str("k1"), !.start = Str("A"), !.end = Str("B")]}

Docs ==
    {[NoDoc EXCEPT !.source_kind = sk] : sk \in {Absent, Str("Imp")}}
    \cup [has_graph : {TRUE},
          nodes : SeqsUpTo(NodeRecords, MaxDocItems),
          edges : SeqsUpTo(DocEdgeRecords, MaxDocItems),
          source_kind : {Absent, Str("Imp")}]

IdOrder == <<"A", "B">>

ImportNodeTables ==
    {SelectSeq([i \in DOMAIN IdOrder |-> Node(IdOrder[i], <<"User">>)],
               LAMBDA n : n.id \in S) : S \in SUBSET Ids}

ImportEdgeLists ==
    SeqsUpTo({Edge("A", "B", "k1"), Edge("B", "A", "k1")}, MaxEdges)

InitImport ==
    /\ nodes \in ImportNodeTables
    /\ edges \in ImportEdgeLists
    /\ source_kind \in SourceKinds
    /\ last = NoCall

ImportFromDict ==
    /\ last.op = "none"
    /\ \E data \in Docs :
          LET r == importFromDict(nodes, edges, source_kind, data)
          IN  /\ nodes' = r.nodes
              /\ edges' = r.edges
              /\ source_kind' = r.source_kind
              /\ last' = [NoCall EXCEPT !.op = "importFromDict", !.doc = data,
                                        !.nodes0 = nodes, !.edges0 = edges,
                                        !.source_kind0 = source_kind,
                                        !.ret = r.ret, !.raised = r.raised]

RoundTrip ==
    /\ last.op = "none"
    /\ \E target_kind \in SourceKinds :
          LET data == exportJSON(nodes, edges, source_kind, TRUE)
              cleared == clear(nodes, edges)
              r == importFromDict(cleared.nodes, cleared.edges, target_kind, data)
          IN  /\ nodes' = r.nodes
              /\ edges' = r.edges
              /\ source_kind' = r.source_kind
              /\ last' = [NoCall EXCEPT !.op = "roundTrip", !.doc = data,
                                        !.nodes0 = nodes, !.edges0 = edges,
                                        !.source_kind0 = source_kind,
                                        !.kind = target_kind,
                                        !.ret = r.ret, !.raised = r.raised]

NextImport ==
    \/ ImportFromDict
    \/ RoundTrip

SpecImport == InitImport /\ [][NextImport]_vars

(***************************************************************************)
(* Construction with empty arguments.  The caller builds an Edge or a Node *)
(* from strings that may be empty and passes it to an insertion; when the  *)
(* constructor raises, the insertion is never called.  The edge records    *)
(* carry one encoding of the endpoints each, with empty strings allowed.   *)
(***************************************************************************)
ConstructIds == Ids \cup {""}

ConstructKinds == {"k1", ""}

ConstructRecords ==
    {[NoKeys EXCEPT !.kind = Str(k), !.source = Str(s), !.target = Str(e)] :
        s \in ConstructIds, e \in ConstructIds, k \in ConstructKinds}
    \cup {[NoKeys EXCEPT !.kind = Str(k), !.start = Obj(s), !.end = Obj(e)] :
              s \in ConstructIds, e \in ConstructIds, k \in ConstructKinds}

ConstructDocRecords ==
    {[NoKeys EXCEPT !.kind = Str("k1"), !.source = Str("A"), !.target = Str("B")],
     [NoKeys EXCEPT !.kind = Str("k1"), !.source = Str(""), !.target = Str("B")],
     [NoKeys EXCEPT !.kind = Str(""), !.source = Str("A"), !.target = Str("B")],
     [NoKeys EXCEPT !.kind = Str("k1"), !.start = Obj("B"), !.end = Obj("")],
     [NoKeys EXCEPT !.kind = Str(""), !.start = Obj("B"), !.end = Obj("A")]}

ConstructDocs ==
    [has_graph : {TRUE},
     nodes : {<<>>},
     edges : SeqsUpTo(ConstructDocRecords, MaxDocItems),
     source_kind : {Absent}]

\* the constructor raised: the insertion is not called
Raised(op, args) ==
    /\ last' = [args EXCEPT !.op = op, !.nodes0 = nodes, !.edges0 = edges,
                            !.raised = TRUE]
    /\ UNCHANGED <<nodes, edges, source_kind>>

NewEdgeAddEdge ==
    /\ last.op = "none"
    /\ \E s \in ConstructIds, e \in ConstructIds, k \in ConstructKinds :
          LET args == [NoCall EXCEPT !.ids = <<s, e>>, !.kind = k]
              c == Edge__init__(s, e, k)
          IN  IF c.t = "ValueError"
              THEN Raised("Edge;addEdge", args)
              ELSE LET r == addEdge(nodes, edges, c.edge)
                   IN  /\ Len(r.edges) <= MaxEdges
                       /\ Call("Edge;addEdge", args, r)

NewEdgeAddEdgeWithoutValidation ==
    /\ last.op = "none"
    /\ \E s \in ConstructIds, e \in ConstructIds, k \in ConstructKinds :
          LET args == [NoCall EXCEPT !.ids = <<s, e>>, !.kind = k]
              c == Edge__init__(s, e, k)
          IN  IF c.t = "ValueError"
              THEN Raised("Edge;addEdgeWithoutValidation", args)
              ELSE LET r == addEdgeWithoutValidation(nodes, edges,
                                                       Instance("Edge", c.edge))
                   IN  /\ Len(r.edges) <= MaxEdges
                       /\ Call("Edge;addEdgeWithoutValidation", args, r)

NewNodeAddNode ==
    /\ last.op = "none"
    /\ \E id \in ConstructIds :
          LET args == [NoCall EXCEPT !.ids = <<id>>]
              c == Node__init__(id, <<"User">>)
          IN  IF c.t = "ValueError"
              THEN Raised("Node;addNode", args)
              ELSE Call("Node;addNode", args,
                        addNode(nodes, edges, source_kind, c.node))

ImportEdgeRecords ==
    /\ last.op = "none"
    /\ \E data \in ConstructDocs :
          LET r == importFromDict(nodes, edges, source_kind, data)
          IN  /\ Len(r.edges) <= MaxEdges
              /\ nodes' = r.nodes
              /\ edges' = r.edges
              /\ source_kind' = r.source_kind
              /\ last' = [NoCall EXCEPT !.op = "importFromDict", !.doc = data,
                                        !.nodes0 = nodes, !.edges0 = edges,
                                        !.source_kind0 = source_kind,
                                        !.ret = r.ret, !.raised = r.raised]

FromDictOfStrings ==
    /\ last.op = "none"
    /\ \E edge_data \in ConstructRecords :
          Query("from_dict",
                [NoCall EXCEPT !.doc = [NoDoc EXCEPT !.edges = <<edge_data>>],
                               !.result = from_dict(edge_data)])

NextConstruct ==
    \/ NewEdgeAddEdge
    \/ NewEdgeAddEdgeWithoutValidation
    \/ NewNodeAddNode
    \/ ImportEdgeRecords
    \/ FromDictOfStrings
    \/ Return

SpecConstruct == Init /\ [][NextConstruct]_vars

(***************************************************************************)
(* exportJSON on the stores of each source kind the constructor accepts:   *)
(* None, the empty string and a name.                                      *)
(***************************************************************************)
ExportSourceKinds == SourceKinds \cup {""}

InitExport ==
    /\ nodes \in ImportNodeTables
    /\ edges \in ImportEdgeLists
    /\ source_kind \in ExportSourceKinds
    /\ last = NoCall

NextExport ==
    \/ ExportJSON
    \/ Return

SpecExport == InitExport /\ [][NextExport]_vars

(***************************************************************************)
(* The two searches run step by step, one step per evaluation of a loop    *)
(* condition and of the loop body that follows it.  last.op names the loop *)
(* a running search is in, and the operation once it has returned.  The    *)
(* stores have cycles, self-loops, duplicate edges and edges whose         *)
(* endpoints are not nodes.  The loops run without interruption: a step    *)
(* that can be taken is taken.                                             *)
(***************************************************************************)
SearchEdgeLists == SeqsUpTo({e \in EdgeArgs : e.kind = "k1"}, MaxEdges)

SearchDepths == -1..(MaxDepth + 1)

InitSearch ==
    /\ nodes \in ImportNodeTables
    /\ edges \in SearchEdgeLists
    /\ source_kind = None
    /\ last = NoCall

FindPathsCall ==
    /\ last.op = "none"
    /\ \E s \in Ids, e \in Ids, d \in SearchDepths :
          LET args == [NoCall EXCEPT !.ids = <<s, e>>, !.max_depth = d,
                                     !.nodes0 = nodes, !.edges0 = edges]
          IN  last' = IF s \notin Keys(nodes) \/ e \notin Keys(nodes)
                      THEN [args EXCEPT !.op = "findPaths", !.paths = <<>>]
                      ELSE IF s = e
                      THEN [args EXCEPT !.op = "findPaths", !.paths = <<(<<s>>)>>]
                      ELSE [args EXCEPT !.op = "findPaths:while",
                                        !.queue = <<[id |-> s, path |-> <<s>>]>>]
    /\ UNCHANGED <<nodes, edges, source_kind>>

\* the while loop of findPaths leaving the item in the queue when it
\* continues
FindPathsIterate_continueWithoutPop ==
    /\ last.op = "findPaths:while"
    /\ last' =
          IF last.queue = <<>> \/ ~(Len(last.queue[1].path) <= last.max_depth)
          THEN [last EXCEPT !.op = "findPaths", !.queue = <<>>]
          ELSE LET current_id == last.queue[1].id
                   path == last.queue[1].path
                   current_depth == Len(path)
               IN  IF current_depth >= last.max_depth
                   THEN last
                   ELSE LET r == FindPathsFor(getEdgesFromNode(edges, current_id),
                                              path, last.ids[2],
                                              Tail(last.queue), last.paths)
                        IN  [last EXCEPT !.queue = r.queue, !.paths = r.paths]
    /\ UNCHANGED <<nodes, edges, source_kind>>

FindPathsIterate ==
    /\ last.op = "findPaths:while"
    /\ last' =
          IF last.queue = <<>> \/ ~(Len(last.queue[1].path) <= last.max_depth)
          THEN [last EXCEPT !.op = "findPaths", !.queue = <<>>]
          ELSE LET current_id == last.queue[1].id
                   path == last.queue[1].path
                   current_depth == Len(path)
               IN  IF current_depth >= last.max_depth
                   THEN [last EXCEPT !.queue = Tail(last.queue)]
                   ELSE LET r == FindPathsFor(getEdgesFromNode(edges, current_id),
                                              path, last.ids[2],
                                              Tail(last.queue), last.paths)
                        IN  [last EXCEPT !.queue = r.queue, !.paths = r.paths]
    /\ UNCHANGED <<nodes, edges, source_kind>>

GetConnectedComponentsCall ==
    /\ last.op = "none"
    /\ last' = [NoCall EXCEPT !.op = "getConnectedComponents:for",
                              !.nodes0 = nodes, !.edges0 = edges, !.i = 1]
    /\ UNCHANGED <<nodes, edges, source_kind>>

ComponentsIterate ==
    /\ last.op \in {"getConnectedComponents:for", "getConnectedComponents:while"}
    /\ last' =
          IF last.op = "getConnectedComponents:for"
          THEN IF last.i > Len(nodes)
               THEN [last EXCEPT !.op = "getConnectedComponents", !.i = 0,
                                 !.visited = {}]
               ELSE IF nodes[last.i].id \notin last.visited
               THEN [last EXCEPT !.op = "getConnectedComponents:while",
                                 !.component = {},
                                 !.stack = <<nodes[last.i].id>>]
               ELSE [last EXCEPT !.i = @ + 1]
          ELSE IF last.stack = <<>>
               THEN [last EXCEPT !.op = "getConnectedComponents:for",
                                 !.components = Append(@, last.component),
                                 !.component = {},
                                 !.i = @ + 1]
               ELSE LET current == last.stack[Len(last.stack)]
                        rest == SubSeq(last.stack, 1, Len(last.stack) - 1)
                    IN  IF current \notin last.visited
                        THEN LET visited2 == last.visited \cup {current}
                             IN  [last EXCEPT
                                     !.visited = visited2,
                                     !.component = @ \cup {current},
                                     !.stack = rest \o Pushed(edges, current, visited2)]
                        ELSE [last EXCEPT !.stack = rest]
    /\ UNCHANGED <<nodes, edges, source_kind>>

\* the caller reads the result of a search that has returned
ReturnFromSearch ==
    /\ last.op \in {"findPaths", "getConnectedComponents"}
    /\ Return

NextSearch ==
    \/ FindPathsCall
    \/ FindPathsIterate
    \/ GetConnectedComponentsCall
    \/ ComponentsIterate
    \/ ReturnFromSearch

SpecSearch ==
    /\ InitSearch
    /\ [][NextSearch]_vars
    /\ WF_vars(FindPathsIterate)
    /\ WF_vars(ComponentsIterate)

(***************************************************************************)
(* Path search on the stores built by the checked insertions, whose edges  *)
(* are of the kinds of EdgeKinds.                                          *)
(***************************************************************************)
FindPathsOnIds ==
    /\ last.op = "none"
    /\ \E s \in Ids, e \in Ids, d \in {2, MaxDepth} :
          last' = [NoCall EXCEPT !.op = "findPaths", !.ids = <<s, e>>,
                                 !.max_depth = d,
                                 !.nodes0 = nodes, !.edges0 = edges,
                                 !.paths = findPaths(nodes, edges, s, e, d)]
    /\ UNCHANGED <<nodes, edges, source_kind>>

NextCheckedPaths ==
    \/ AddNode
    \/ AddEdge
    \/ RemoveNodeById
    \/ FindPathsOnIds
    \/ Return

SpecCheckedPaths == Init /\ [][NextCheckedPaths]_vars

(***************************************************************************)
(* Loading through the unchecked insertions: single nodes and edges in any *)
(* order, and on a store without edges a list of nodes and a list of edges *)
(* in one order or the other, followed by validateGraph.                   *)
(***************************************************************************)
LoadEdgeLists == SeqsUpTo({Edge("A", "B", "k1"), Edge("B", "A", "k1")}, MaxBulk)

\* the list object holding the elements of list as instances of class
ListOf(class, list) == Instance("list", [i \in DOMAIN list |-> Instance(class, list[i])])

NodesThenEdges(ns, es, nodeList, edgeList) ==
    LET r1 == addNodesWithoutValidation(ns, es, ListOf("Node", nodeList))
        r2 == addEdgesWithoutValidation(r1.nodes, r1.edges, ListOf("Edge", edgeList))
    IN  [ret |-> r1.ret /\ r2.ret, nodes |-> r2.nodes, edges |-> r2.edges]

EdgesThenNodes(ns, es, nodeList, edgeList) ==
    LET r1 == addEdgesWithoutValidation(ns, es, ListOf("Edge", edgeList))
        r2 == addNodesWithoutValidation(r1.nodes, r1.edges, ListOf("Node", nodeList))
    IN  [ret |-> r1.ret /\ r2.ret, nodes |-> r2.nodes, edges |-> r2.edges]

LoadNodesThenEdges ==
    /\ last.op = "none"
    /\ edges = <<>>
    /\ \E nodeList \in NodeLists, edgeList \in LoadEdgeLists :
          LET r == NodesThenEdges(nodes, edges, nodeList, edgeList)
          IN  Call("nodesThenEdges",
                   [NoCall EXCEPT !.nodeArgs = nodeList, !.edgeArgs = edgeList,
                                  !.errors = validateGraph(r.nodes, r.edges)], r)

LoadEdgesThenNodes ==
    /\ last.op = "none"
    /\ edges = <<>>
    /\ \E nodeList \in NodeLists, edgeList \in LoadEdgeLists :
          LET r == EdgesThenNodes(nodes, edges, nodeList, edgeList)
          IN  Call("edgesThenNodes",
                   [NoCall EXCEPT !.nodeArgs = nodeList, !.edgeArgs = edgeList,
                                  !.errors = validateGraph(r.nodes, r.edges)], r)

NextLoad ==
    \/ AddNodeWithoutValidation
    \/ AddEdgeWithoutValidation
    \/ LoadNodesThenEdges
    \/ LoadEdgesThenNodes
    \/ Return

SpecLoad == Init /\ [][NextLoad]_vars

(***************************************************************************)
(* The order of the paths returned by findPaths.  A walk is the sequence   *)
(* of the positions in the edge list of the edges a path follows.          *)
(***************************************************************************)
NodesOf(es, w, s) == <<s>> \o [i \in DOMAIN w |-> es[w[i]].end_node_id]

\* the walks of es from s with n edges that visit no node twice
RECURSIVE WalksFrom(_, _, _)
WalksFrom(es, s, n) ==
    IF n = 0
    THEN {<<>>}
    ELSE LET shorter == WalksFrom(es, s, n - 1)
             steps == {x \in shorter \X DOMAIN es :
                          LET p == NodesOf(es, x[1], s)
                          IN  /\ es[x[2]].start_node_id = p[Len(p)]
                              /\ \A i \in DOMAIN p : p[i] # es[x[2]].end_node_id}
         IN  {Append(x[1], x[2]) : x \in steps}

\* the walks of es from s to e that visit no node twice
SimpleWalks(es, s, e) ==
    {w \in UNION {WalksFrom(es, s, n) : n \in 1..(Cardinality(OrderIds) - 1)} :
        es[w[Len(w)]].end_node_id = e}

\* v is shorter than w, or as long and its edge comes first in the edge
\* list at the first step where they differ
Before(v, w) ==
    \/ Len(v) < Len(w)
    \/ /\ Len(v) = Len(w)
       /\ \E i \in DOMAIN v : v[i] < w[i] /\ \A j \in 1..(i - 1) : v[j] = w[j]

\* the position of the walk w of W when W is put in discovery order
Position(W, w) == 1 + Cardinality({v \in W : Before(v, w)})

(* C11: findPaths returns the paths in discovery order: shorter paths      *)
(* before longer ones and paths of the same length in the order, in the    *)
(* edge list, of the edges they follow where they first differ, so the     *)
(* result is an initial part of the simple walks from start to end put in  *)
(* that order; with nodes A, B, C and edges A->B, B->C, A->C in that       *)
(* order, findPaths(A, C, 5) returns [[A, C], [A, B, C]].                  *)
C11_DiscoveryOrder ==
    (last.op = "findPaths" /\ start_id # end_id) =>
        LET W == SimpleWalks(edges, start_id, end_id)
        IN  /\ \A m, n \in DOMAIN last.paths :
                  m < n => Len(last.paths[m]) <= Len(last.paths[n])
            /\ Len(last.paths) <= Cardinality(W)
            /\ \A w \in W :
                  Position(W, w) <= Len(last.paths)
                  => last.paths[Position(W, w)] = NodesOf(edges, w, start_id)
            /\ (/\ Keys(nodes) = {"A", "B", "C"}
                /\ edges = <<Edge("A", "B", "k1"), Edge("B", "C", "k1"),
                             Edge("A", "C", "k1")>>
                /\ end_id = "C"
                /\ last.max_depth = 5)
               => last.paths = << <<"A", "C">>, <<"A", "B", "C">> >>

C11_Witness ==
    /\ last.op = "findPaths"
    /\ edges = <<Edge("A", "C", "k1"), Edge("A", "B", "k1"),
                 Edge("B", "D", "k1"), Edge("C", "D", "k1")>>
    /\ last.paths = << <<"A", "C", "D">>, <<"A", "B", "D">> >>

(***************************************************************************)
(* Properties of getConnectedComponents.                                   *)
(***************************************************************************)
(* C12: in every store, with or without edges whose endpoints are not      *)
(* nodes, getConnectedComponents returns a partition of the node ids: the  *)
(* union of the returned sets is the set of keys of the node table, and    *)
(* the returned sets are non-empty and pairwise disjoint.                  *)
C12_ComponentsPartitionNodeIds ==
    last.op = "getConnectedComponents" =>
        /\ UNION Range(last.components) = Keys(nodes)
        /\ \A i \in DOMAIN last.components : last.components[i] # {}
        /\ \A i, j \in DOMAIN last.components :
              i # j => last.components[i] \cap last.components[j] = {}

\* u and v are joined by a chain of edges of es taken in either direction
RECURSIVE Reach(_, _)
Reach(es, S) ==
    LET S2 == S \cup {es[k].end_node_id : k \in {i \in DOMAIN es : es[i].start_node_id \in S}}
                \cup {es[k].start_node_id : k \in {i \in DOMAIN es : es[i].end_node_id \in S}}
    IN  IF S2 = S THEN S ELSE Reach(es, S2)

Chained(es, u, v) == v \in Reach(es, {u})

(* C13: in a store without isolated edges, two node ids are in the same    *)
(* returned component exactly when a chain of edges, each taken in either  *)
(* direction, joins them; a node with no edge to another node is a         *)
(* component of its own, and the empty store has no component.             *)
C13_ComponentsAreUndirectedReachability ==
    (last.op = "getConnectedComponents" /\ getIsolatedEdges(nodes, edges) = <<>>) =>
        /\ \A u, v \in Keys(nodes) :
              (\E i \in DOMAIN last.components :
                  u \in last.components[i] /\ v \in last.components[i])
              <=> Chained(edges, u, v)
        /\ \A u \in Keys(nodes) :
              (\A k \in DOMAIN edges : Touches(edges[k], u) =>
                    edges[k].start_node_id = edges[k].end_node_id)
              => \E i \in DOMAIN last.components : last.components[i] = {u}
        /\ nodes = <<>> => last.components = <<>>

C13_Witness ==
    /\ last.op = "getConnectedComponents"
    /\ getIsolatedEdges(nodes, edges) = <<>>
    /\ edges = <<Edge("A", "B", "k1"), Edge("C", "B", "k1"), Edge("C", "C", "k1")>>
    /\ last.components = <<{"A", "B", "C"}>>

(***************************************************************************)
(* Properties of validateGraph.                                            *)
(***************************************************************************)
\* the entries of errors of one type, in their order
OfType(errors, type) == SelectSeq(errors, LAMBDA x : x.type = type)

MissingStart == {k \in DOMAIN edges : edges[k].start_node_id \notin Keys(nodes)}

MissingEnd == {k \in DOMAIN edges : edges[k].end_node_id \notin Keys(nodes)}

NoEdgeAt == {i \in DOMAIN nodes : \A k \in DOMAIN edges : ~Touches(edges[k], nodes[i].id)}

(* C14: validateGraph returns one entry for each edge whose start is not a *)
(* node and one for each edge whose end is not a node, naming the kind and *)
(* the missing id (two entries for an edge missing both, one set of        *)
(* entries per duplicate edge), and exactly one entry listing the nodes    *)
(* that have no incoming and no outgoing edge when there is such a node;   *)
(* the list holds nothing else, so it is empty when no edge endpoint is    *)
(* missing and no node is isolated.                                        *)
C14_ValidateGraphEntries ==
    last.op = "validateGraph" =>
        LET starts == OfType(last.errors, "non-existent start node")
            ends == OfType(last.errors, "non-existent end node")
            isolated == OfType(last.errors, "isolated nodes")
        IN  /\ starts = [j \in 1..Cardinality(MissingStart) |->
                            StartError(WithoutPositions(edges, DOMAIN edges \ MissingStart)[j])]
            /\ ends = [j \in 1..Cardinality(MissingEnd) |->
                          EndError(WithoutPositions(edges, DOMAIN edges \ MissingEnd)[j])]
            /\ Len(isolated) = IF NoEdgeAt # {} THEN 1 ELSE 0
            /\ NoEdgeAt # {} =>
                  /\ isolated[1].count = Cardinality(NoEdgeAt)
                  /\ Range(isolated[1].ids) = {nodes[i].id : i \in NoEdgeAt}
            /\ Len(last.errors) = Len(starts) + Len(ends) + Len(isolated)
            /\ (MissingStart = {} /\ MissingEnd = {} /\ NoEdgeAt = {}) => last.errors = <<>>

C14_Witness ==
    /\ last.op = "validateGraph"
    /\ Keys(nodes) = {"A", "C"}
    /\ edges = <<Edge("B", "B", "k1"), Edge("B", "B", "k1"), Edge("A", "B", "k1")>>
    /\ Len(last.errors) = 6

(***************************************************************************)
(* The read operations.                                                    *)
(***************************************************************************)
ReadOps ==
    {"findPaths", "getConnectedComponents", "validateGraph", "exportJSON",
     "getNodeById", "getNodesByKind", "getEdgesByKind", "getEdgesFromNode",
     "getEdgesToNode", "getIsolatedNodes", "getIsolatedEdges", "getNodeCount",
     "getEdgeCount", "getIsolatedNodesCount", "getIsolatedEdgesCount"}

(* C15: a call of findPaths, getConnectedComponents, validateGraph,        *)
(* exportJSON or of a query or count operation leaves the node table, the  *)
(* edge list (content and order) and source_kind as they were, for every   *)
(* store and argument.                                                     *)
C15_ReadOperationsLeaveStoreUnchanged ==
    [][last'.op \in ReadOps =>
          /\ nodes' = nodes
          /\ edges' = edges
          /\ source_kind' = source_kind]_vars

C15_Witness ==
    /\ last.op = "validateGraph"
    /\ Len(last.errors) = 3
    /\ Len(edges) = 2
    /\ Len(nodes) = 2
    /\ Truthy(source_kind)

(***************************************************************************)
(* Properties of export and import.                                        *)
(***************************************************************************)
\* the edges that from_dict builds from the records of list, in their order
RECURSIVE Parsed(_)
Parsed(list) ==
    IF list = <<>>
    THEN <<>>
    ELSE (IF from_dict(Head(list)).t = "edge"
          THEN <<from_dict(Head(list)).edge>>
          ELSE <<>>) \o Parsed(Tail(list))

\* the ids carried by the node records of list
RecordIds(list) == {list[i].id.v : i \in {j \in DOMAIN list : list[j].id.t = "str"}}

(* C16: exporting a store built through the checked path (no isolated     *)
(* edge, no two edges with the same triple), with or without a source      *)
(* kind, and importing the document into a store on which clear() has just *)
(* been called gives a store with the node count, the edge count and the   *)
(* source kind of the exported store.                                      *)
C16_RoundTripReproducesStore ==
    (/\ last.op = "roundTrip"
     /\ getIsolatedEdges(last.nodes0, last.edges0) = <<>>
     /\ \A i, j \in DOMAIN last.edges0 :
           i # j => ~SameTriple(last.edges0[i], last.edges0[j]))
    => /\ getNodeCount(nodes) = getNodeCount(last.nodes0)
       /\ getEdgeCount(edges) = getEdgeCount(last.edges0)
       /\ source_kind = last.source_kind0

(* C17: importFromDict of a document without the "graph" key returns false *)
(* and leaves the node table and the edge list unchanged; of any document  *)
(* with the "graph" key it returns true, inserts every node record that    *)
(* carries an id and every edge record that parses to an Edge, and skips   *)
(* every other record without stopping at it.                              *)
C17_ImportIsPartialFailureTolerant ==
    last.op = "importFromDict" =>
        IF ~last.doc.has_graph
        THEN /\ last.ret = FALSE
             /\ nodes = last.nodes0
             /\ edges = last.edges0
        ELSE /\ last.ret = TRUE
             /\ ~last.raised
             /\ RecordIds(last.doc.nodes) \subseteq Keys(nodes)
             /\ Keys(nodes) = Keys(last.nodes0) \cup RecordIds(last.doc.nodes)
             /\ edges = last.edges0 \o Parsed(last.doc.edges)

(* C18: a successful import merges through the unchecked insertions: the   *)
(* edges of the store are still there, in place, the nodes whose id is not *)
(* in the document are still there, unchanged, and every parsed edge       *)
(* record is appended whether or not its endpoints are nodes and whether   *)
(* or not the store already has its triple; importing a document with one  *)
(* edge record and no node record into the empty store gives 0 nodes and 1 *)
(* edge.                                                                   *)
C18_ImportMergesUnchecked ==
    (last.op = "importFromDict" /\ last.ret = TRUE) =>
        /\ SubSeq(edges, 1, Len(last.edges0)) = last.edges0
        /\ \A i \in DOMAIN last.nodes0 :
              last.nodes0[i].id \notin RecordIds(last.doc.nodes)
              => /\ last.nodes0[i].id \in Keys(nodes)
                 /\ DictGet(nodes, last.nodes0[i].id) = last.nodes0[i]
        /\ Len(edges) = Len(last.edges0) + Len(Parsed(last.doc.edges))
        /\ \A k \in DOMAIN Parsed(last.doc.edges) :
              edges[Len(last.edges0) + k] = Parsed(last.doc.edges)[k]
        /\ (/\ last.nodes0 = <<>>
            /\ last.edges0 = <<>>
            /\ last.doc.nodes = <<>>
            /\ last.doc.edges = <<[NoKeys EXCEPT !.kind = Str("k1"),
                                                 !.source = Str("A"),
                                                 !.target = Str("B")]>>)
           => getNodeCount(nodes) = 0 /\ getEdgeCount(edges) = 1

C18_Witness ==
    /\ last.op = "importFromDict"
    /\ last.ret = TRUE
    /\ last.edges0 = <<Edge("A", "B", "k1")>>
    /\ edges = <<Edge("A", "B", "k1"), Edge("A", "B", "k1")>>
    /\ Keys(nodes) = {"B"}
    /\ last.doc.nodes # <<>>

(* C19: a successful import sets source_kind to metadata.source_kind when  *)
(* the document has it, whatever source_kind was, and leaves source_kind   *)
(* as it was, null or not, when the document has none.                     *)
C19_ImportSourceKind ==
    (last.op = "importFromDict" /\ last.ret = TRUE) =>
        source_kind = IF Has(last.doc.source_kind)
                      THEN last.doc.source_kind.v
                      ELSE last.source_kind0

C19_Witness ==
    /\ last.op = "importFromDict"
    /\ last.ret = TRUE
    /\ last.source_kind0 = "Src"
    /\ source_kind = "Imp"
    /\ nodes # last.nodes0

\* the encodings of the endpoints of an edge record
Supplies(s, e) == Truthy(s) /\ Truthy(e)

ObjValue(x) == IF x.t = "obj" THEN x.v ELSE None

(* C20: from_dict builds the Edge from the first of the encodings          *)
(* start.value / end.value, source / target, start_node_id / end_node_id   *)
(* that supplies both endpoint ids, and returns None only when the record  *)
(* has no kind or no encoding supplies both ids; so a record with "start"  *)
(* and "end" objects without "value" and with "source" and "target" is     *)
(* parsed from "source" and "target".                                      *)
C20_FirstEncodingThatSuppliesBoth ==
    (last.op = "from_dict" /\ last.result.t # "raise") =>
        LET d == last.doc.edges[1]
            kind == Val(d.kind)
            a == <<ObjValue(d.start), ObjValue(d.end)>>
            b == <<Val(d.source), Val(d.target)>>
            c == <<Val(d.start_node_id), Val(d.end_node_id)>>
        IN  IF ~Truthy(kind)
            THEN last.result.t = "none"
            ELSE IF Supplies(a[1], a[2])
            THEN last.result = [t |-> "edge", edge |-> Edge(a[1], a[2], kind)]
            ELSE IF Supplies(b[1], b[2])
            THEN last.result = [t |-> "edge", edge |-> Edge(b[1], b[2], kind)]
            ELSE IF Supplies(c[1], c[2])
            THEN last.result = [t |-> "edge", edge |-> Edge(c[1], c[2], kind)]
            ELSE last.result.t = "none"

(***************************************************************************)
(* Properties of construction.                                             *)
(***************************************************************************)
NonEmpty(edge) ==
    /\ Truthy(edge.start_node_id)
    /\ Truthy(edge.end_node_id)
    /\ Truthy(edge.kind)

\* the endpoint ids that a record of ConstructRecords hands to the
\* constructor
RecordEndpoints(d) ==
    IF Has(d.start)
    THEN <<ObjValue(d.start), ObjValue(d.end)>>
    ELSE <<Val(d.source), Val(d.target)>>

(* C21: constructing an Edge with an empty start, end or kind, or a Node   *)
(* with an empty id, raises and the insertion is not reached, so no edge   *)
(* of a store built by addEdge, addEdgeWithoutValidation and imports has   *)
(* an empty start, end or kind; from_dict returns None, and raises         *)
(* nothing, on a record that carries an empty start, end or kind.          *)
C21_NoEmptyEdgeIsConstructed ==
    /\ \A i \in DOMAIN edges : NonEmpty(edges[i])
    /\ last.op \in {"Edge;addEdge", "Edge;addEdgeWithoutValidation"} =>
          LET empty == ~NonEmpty(Edge(last.ids[1], last.ids[2], last.kind))
          IN  /\ last.raised = empty
              /\ empty => nodes = last.nodes0 /\ edges = last.edges0
    /\ last.op = "Node;addNode" =>
          /\ last.raised = ~Truthy(last.ids[1])
          /\ last.raised => nodes = last.nodes0 /\ edges = last.edges0
    /\ last.op = "from_dict" =>
          LET d == last.doc.edges[1]
              ids == RecordEndpoints(d)
          IN  /\ last.result.t \in {"edge", "none"}
              /\ last.result.t = "edge" => NonEmpty(last.result.edge)
              /\ ~NonEmpty(Edge(ids[1], ids[2], Val(d.kind))) => last.result.t = "none"

C21_Witness ==
    /\ last.op = "Edge;addEdgeWithoutValidation"
    /\ last.raised
    /\ last.kind = ""
    /\ Truthy(last.ids[1])
    /\ Truthy(last.ids[2])
    /\ Len(edges) = 2
    /\ nodes # <<>>

(* C22: exportJSON emits metadata.source_kind exactly when                 *)
(* include_metadata is true and source_kind is not null, the empty string  *)
(* included; it always emits the graph object, whose nodes and edges lists *)
(* hold one entry per stored node and per stored edge in insertion order.  *)
C22_MetadataIffIncludedAndNonNull ==
    last.op = "exportJSON" =>
        /\ Has(last.doc.source_kind) <=> (last.include_metadata /\ source_kind # None)
        /\ Has(last.doc.source_kind) => last.doc.source_kind = Str(source_kind)
        /\ last.doc.has_graph
        /\ last.doc.nodes = [i \in DOMAIN nodes |-> NodeToDict(nodes[i])]
        /\ last.doc.edges = [i \in DOMAIN edges |-> to_dict(edges[i])]

\* the number of positions of kinds that hold kind
Occurrences(kinds, kind) == Cardinality({i \in DOMAIN kinds : kinds[i] = kind})

C24_UncheckedInsertions ==
    /\ last.op = "addNodeWithoutValidation" =>
          IF last.argClass = "Node"
          THEN LET node == last.nodeArgs[1]
               IN  /\ last.ret = TRUE
                   /\ node.id \in Keys(nodes)
                   /\ DictGet(nodes, node.id) = node
                   /\ getNodeCount(nodes) =
                         IF node.id \in Keys(last.nodes0)
                         THEN getNodeCount(last.nodes0)
                         ELSE getNodeCount(last.nodes0) + 1
                   /\ \A i \in DOMAIN last.nodes0 :
                         last.nodes0[i].id # node.id => nodes[i] = last.nodes0[i]
                   /\ edges = last.edges0
          ELSE /\ last.ret = FALSE
               /\ nodes = last.nodes0
               /\ edges = last.edges0
    /\ last.op = "addEdgeWithoutValidation" =>
          IF last.argClass = "Edge"
          THEN /\ last.ret = TRUE
               /\ getEdgeCount(edges) = getEdgeCount(last.edges0) + 1
               /\ edges = Append(last.edges0, last.edgeArgs[1])
               /\ nodes = last.nodes0
          ELSE /\ last.ret = FALSE
               /\ nodes = last.nodes0
               /\ edges = last.edges0

C24_Witness ==
    /\ last.op = "addNodeWithoutValidation"
    /\ last.ret = TRUE
    /\ source_kind = "Src"
    /\ last.nodes0 = <<Node("A", <<"User", "Src">>), Node("B", <<"Src">>)>>
    /\ nodes = <<Node("A", <<"User">>), Node("B", <<"Src">>)>>
    /\ \E i, j \in DOMAIN edges :
          /\ i # j
          /\ SameTriple(edges[i], edges[j])
          /\ Touches(edges[i], "A")

(***************************************************************************)
(* Properties of clear.                                                    *)
(***************************************************************************)
(* C25: clear() called on any store leaves the node table and the edge     *)
(* list empty, so the node count, the edge count and the length of the     *)
(* store are 0, and leaves source_kind as it was; after it addNode accepts *)
(* every node that was stored, and addEdge accepts every edge that was     *)
(* stored once addNode has put its endpoints back.                         *)
C25_ClearEmptiesAndAllowsReinsertion ==
    last.op = "clear" =>
        /\ nodes = <<>>
        /\ edges = <<>>
        /\ getNodeCount(nodes) = 0
        /\ getEdgeCount(edges) = 0
        /\ __len__(nodes, edges) = 0
        /\ source_kind = last.source_kind0
        /\ \A i \in DOMAIN last.nodes0 :
              addNode(nodes, edges, source_kind, last.nodes0[i]).ret = TRUE
        /\ \A k \in DOMAIN last.edges0 :
              LET edge == last.edges0[k]
                  r == addNodes(nodes, edges, source_kind,
                                <<Node(edge.start_node_id, <<"User">>),
                                  Node(edge.end_node_id, <<"User">>)>>)
              IN  addEdge(r.nodes, r.edges, edge).ret = TRUE

C25_Witness ==
    /\ last.op = "clear"
    /\ source_kind = "Src"
    /\ Len(last.nodes0) = 2
    /\ Len(last.edges0) = 2
    /\ SameTriple(last.edges0[1], last.edges0[2])
    /\ __len__(nodes, edges) = 0

(***************************************************************************)
(* Properties of Edge.from_dict.                                           *)
(***************************************************************************)
(* C26: from_dict raises on no record: whatever is under "start", "end"    *)
(* and "kind", a plain string or null included, it returns an Edge or      *)
(* None.                                                                   *)
C26_FromDictNeverRaises ==
    last.op = "from_dict" => last.result.t \in {"edge", "none"}

C28_SearchesTerminate ==
    /\ (last.op = "findPaths:while") ~> (last.op = "findPaths")
    /\ (last.op \in {"getConnectedComponents:for", "getConnectedComponents:while"})
          ~> (last.op = "getConnectedComponents")

C28_Witness ==
    /\ last.op = "findPaths"
    /\ last.max_depth = MaxDepth + 1
    /\ edges = <<Edge("A", "B", "k1"), Edge("B", "A", "k1")>>
    /\ Keys(nodes) = {"A", "B"}
    /\ last.paths = << <<"A", "B">> >>
    /\ last.paths = findPaths(nodes, edges, start_id, end_id, last.max_depth)

(* C29: in every store built by the checked insertions, two nodes joined   *)
(* by edges of several kinds included, the list returned by findPaths      *)
(* holds no sequence of node ids twice.                                    *)
C29_NoPathReturnedTwice ==
    last.op = "findPaths" =>
        \A m, n \in DOMAIN last.paths : m # n => last.paths[m] # last.paths[n]

(***************************************************************************)
(* Properties of the isolated edges.                                       *)
(***************************************************************************)
BothEndsPresent == {k \in DOMAIN edges : /\ edges[k].start_node_id \in Keys(nodes)
                                         /\ edges[k].end_node_id \in Keys(nodes)}

(* C30: whatever the order of the insertions was, getIsolatedEdges reports *)
(* exactly the edges that have an endpoint missing from the node table as  *)
(* it is now, and validateGraph names only ids missing from it, so an edge *)
(* inserted before its endpoints is no longer reported once both are       *)
(* nodes; and inserting a list of nodes and a list of edges through the    *)
(* unchecked insertions gives the same node table, the same edge list and  *)
(* the same validateGraph result in the two orders.                        *)
C30_IsolationIgnoresInsertionOrder ==
    /\ getIsolatedEdges(nodes, edges) = WithoutPositions(edges, BothEndsPresent)
    /\ \A n \in DOMAIN validateGraph(nodes, edges) :
          LET error == validateGraph(nodes, edges)[n]
          IN  error.type # "isolated nodes" => error.id \notin Keys(nodes)
    /\ last.op \in {"nodesThenEdges", "edgesThenNodes"} =>
          LET other == IF last.op = "nodesThenEdges"
                       THEN EdgesThenNodes(last.nodes0, last.edges0,
                                           last.nodeArgs, last.edgeArgs)
                       ELSE NodesThenEdges(last.nodes0, last.edges0,
                                           last.nodeArgs, last.edgeArgs)
          IN  /\ Keys(nodes) = Keys(other.nodes)
              /\ nodes = other.nodes
              /\ edges = other.edges
              /\ last.errors = validateGraph(other.nodes, other.edges)

C30_Witness ==
    /\ last.op = "addNodeWithoutValidation"
    /\ last.argClass = "Node"
    /\ Len(edges) = 2
    /\ edges = last.edges0
    /\ getIsolatedEdges(last.nodes0, last.edges0) = last.edges0
    /\ getIsolatedEdges(nodes, edges) = <<>>
    /\ validateGraph(nodes, edges) = <<>>

====
